---------------------------- MODULE Spec2Model ----------------------------
(***************************************************************************)
(* A state-machine model of one run of main() of the NeMo Forced Aligner   *)
(* driver, tools/nemo_forced_aligner/align.py.  The process position `pc`  *)
(* walks through main: config validation, manifest validation, device      *)
(* selection, model loading, set-up of the run-level state, then the batch *)
(* loop (build batch variables, Viterbi-decode, per-utterance output) and  *)
(* the close of the output manifest.                                       *)
(*                                                                         *)
(* The helpers main imports from utils.* and nemo.* are not part of the    *)
(* available sources; they are modelled from the written specification at  *)
(* their interface only (what they return, which files they create).       *)
(***************************************************************************)
EXTENDS Integers, Sequences, FiniteSets, TLC

VARIABLES
    cfg,                      \* the AlignmentConfig passed to main
    manifest,                 \* the lines of the file at cfg.manifest_filepath
    cuda_available,           \* environment: what torch.cuda.is_available() would return
    model_is_ctc,             \* environment: the loaded model is an EncDecCTCModel
    pc,                       \* position of main
    error,                    \* the exception main ended with, or NoError
    transcribe_device,        \* local transcribe_device (type of the torch.device)
    viterbi_device,           \* local viterbi_device
    model,                    \* where the model was loaded from, or "unloaded"
    called,                   \* names of the collaborators called so far
    output_dir_created,       \* os.makedirs(cfg.output_dir) has run
    f_manifest_out,           \* "unopened", "open" or "closed"
    manifest_out,             \* the lines written to f_manifest_out, in order
    files,                    \* the CTM / ASS files on disk: <<kind, line_id>>
    starts, ends,             \* batch boundaries (0-based line ids)
    batch_i,                  \* index into zip(starts, ends) of the current batch
    pred_text_all_lines,      \* Optional[list]: <<>> is None, <<l>> is the list l
    output_timestep_duration, \* NoDuration (None) or the duration
    utt_obj_batch,            \* utterance objects of the current batch
    alignments_batch,         \* per-utterance decoding results of the current batch
    utt_i                     \* index into zip(utt_obj_batch, alignments_batch)

vars == <<cfg, manifest, cuda_available, model_is_ctc, pc, error, transcribe_device,
          viterbi_device, model, called, output_dir_created, f_manifest_out,
          manifest_out, files, starts, ends, batch_i, pred_text_all_lines,
          output_timestep_duration, utt_obj_batch, alignments_batch, utt_i>>

-----------------------------------------------------------------------------
(* Bounds of the model *)

MaxLines == 3          \* longest manifest
MaxBatchSize == 2      \* largest cfg.batch_size
MaxStride == 2         \* number of distinct frame durations a batch may yield

-----------------------------------------------------------------------------
(* Python values *)

None == "None"         \* None of an Optional[str] field
NoError == "NoError"
NoDuration == 0        \* output_timestep_duration = None
NoneList == <<>>       \* pred_text_all_lines = None
EmptyList == << <<>> >>

Min(a, b) == IF a < b THEN a ELSE b

-----------------------------------------------------------------------------
(* The inputs: configurations and manifests *)

Fields == {"audio_filepath", "text", "pred_text"}

Separators == {None, "", " ", "  ", "\t", "\n", "|"}

Devices == {None, "cpu", "cuda"}

Formats == {"ctm", "ass"}

ConfigType ==
    [pretrained_name : {None, "stt_en_ctc"},
     model_path : {None, "model.nemo"},
     manifest_filepath : {None, "manifest.json"},
     output_dir : {None, "out"},
     align_using_pred_text : BOOLEAN,
     transcribe_device : Devices,
     viterbi_device : Devices,
     batch_size : 0..MaxBatchSize,
     additional_ctm_grouping_separator : Separators,
     minimum_timestamp_duration : {-1, 0, 1},
     save_output_file_formats : SUBSET Formats]

\* AlignmentConfig's defaults (src lines 100-118) with the required fields given.
DefaultConfig ==
    [pretrained_name |-> "stt_en_ctc",
     model_path |-> None,
     manifest_filepath |-> "manifest.json",
     output_dir |-> "out",
     align_using_pred_text |-> FALSE,
     transcribe_device |-> None,
     viterbi_device |-> None,
     batch_size |-> 1,
     additional_ctm_grouping_separator |-> None,
     minimum_timestamp_duration |-> 0,
     save_output_file_formats |-> Formats]

\* A manifest line: the keys of its JSON object, the frame count T the model
\* yields for its audio and the length U of the target it is aligned against.
FrameCounts == {1, 3}
TargetLengths == {0, 1}
LineType == [fields : SUBSET Fields, T : FrameCounts, U : TargetLengths]

SeqsUpTo(S, n) == UNION {[1..k -> S] : k \in 0..n}

\* Configurations in which every field main validates varies.
ValidityConfigs ==
    {c \in ConfigType :
        /\ c.transcribe_device = None /\ c.viterbi_device = None
        /\ c.save_output_file_formats = Formats}

\* Valid configurations in which the device settings vary.
DeviceConfigs ==
    {c \in ConfigType :
        \E td \in Devices, vd \in Devices :
            c = [DefaultConfig EXCEPT !.transcribe_device = td, !.viterbi_device = vd]}

\* Valid configurations in which the manifest validation mode varies.
ManifestConfigs ==
    {c \in ConfigType :
        \E p \in BOOLEAN : c = [DefaultConfig EXCEPT !.align_using_pred_text = p]}

\* Valid configurations in which what the batch loop reads varies.
RunConfigs ==
    {c \in ConfigType :
        \E p \in BOOLEAN, b \in 1..MaxBatchSize, s \in {None, "|"}, f \in SUBSET Formats :
            c = [DefaultConfig EXCEPT !.align_using_pred_text = p,
                                      !.batch_size = b,
                                      !.additional_ctm_grouping_separator = s,
                                      !.save_output_file_formats = f]}

\* Manifests whose keys vary (frame counts fixed).
KeyManifests ==
    SeqsUpTo({l \in LineType : l.T = 1 /\ l.U = 0}, MaxLines)

\* Manifests that pass validation in both modes, whose frame counts and
\* target lengths vary.
RunManifests ==
    SeqsUpTo({l \in LineType : l.fields = {"audio_filepath", "text"}}, MaxLines)

GoodLine == [fields |-> {"audio_filepath", "text"}, T |-> 1, U |-> 0]

-----------------------------------------------------------------------------
(* main, lines 129-149: config validation *)

\* Drops the batch_size check of line 142.
ConfigErrorNoBatchSize(c) ==
    IF c.model_path = None /\ c.pretrained_name = None THEN "ValueError"
    ELSE IF c.model_path # None /\ c.pretrained_name # None THEN "ValueError"
    ELSE IF c.manifest_filepath = None THEN "ValueError"
    ELSE IF c.output_dir = None THEN "ValueError"
    ELSE IF c.additional_ctm_grouping_separator = ""
            \/ c.additional_ctm_grouping_separator = " " THEN "ValueError"
    ELSE IF c.minimum_timestamp_duration < 0 THEN "ValueError"
    ELSE NoError

\* Rejects a separator that is empty once stripped (str.strip() == "").
ConfigErrorStrip(c) ==
    IF c.model_path = None /\ c.pretrained_name = None THEN "ValueError"
    ELSE IF c.model_path # None /\ c.pretrained_name # None THEN "ValueError"
    ELSE IF c.manifest_filepath = None THEN "ValueError"
    ELSE IF c.output_dir = None THEN "ValueError"
    ELSE IF c.batch_size < 1 THEN "ValueError"
    ELSE IF c.additional_ctm_grouping_separator \in {"", " ", "  ", "\t", "\n"} THEN "ValueError"
    ELSE IF c.minimum_timestamp_duration < 0 THEN "ValueError"
    ELSE NoError

ConfigError(c) ==
    IF c.model_path = None /\ c.pretrained_name = None THEN "ValueError"
    ELSE IF c.model_path # None /\ c.pretrained_name # None THEN "ValueError"
    ELSE IF c.manifest_filepath = None THEN "ValueError"
    ELSE IF c.output_dir = None THEN "ValueError"
    ELSE IF c.batch_size < 1 THEN "ValueError"
    ELSE IF c.additional_ctm_grouping_separator = ""
            \/ c.additional_ctm_grouping_separator = " " THEN "ValueError"
    ELSE IF c.minimum_timestamp_duration < 0 THEN "ValueError"
    ELSE NoError

-----------------------------------------------------------------------------
(* main, lines 151-170: manifest validation *)

is_entry_in_all_lines(m, entry) == \A i \in DOMAIN m : entry \in m[i].fields

is_entry_in_any_lines(m, entry) == \E i \in DOMAIN m : entry \in m[i].fields

\* Requires 'text' on every line whatever align_using_pred_text is.
ManifestErrorTextAlways(c, m) ==
    IF ~is_entry_in_all_lines(m, "audio_filepath") THEN "RuntimeError"
    ELSE IF c.align_using_pred_text /\ is_entry_in_any_lines(m, "pred_text") THEN "RuntimeError"
    ELSE IF ~is_entry_in_all_lines(m, "text") THEN "RuntimeError"
    ELSE NoError

ManifestError(c, m) ==
    IF ~is_entry_in_all_lines(m, "audio_filepath") THEN "RuntimeError"
    ELSE IF c.align_using_pred_text
         THEN (IF is_entry_in_any_lines(m, "pred_text") THEN "RuntimeError" ELSE NoError)
         ELSE (IF ~is_entry_in_all_lines(m, "text") THEN "RuntimeError" ELSE NoError)

-----------------------------------------------------------------------------
(* main, lines 172-183: device selection *)

\* The condition of the conditional expression of lines 174 and 180 is
\* `torch.cuda.is_available`, the function object itself and not a call of
\* it; a function object is truthy whatever the function would return.
CudaCondition(avail) == TRUE

DefaultDevice(avail) == IF CudaCondition(avail) THEN "cuda" ELSE "cpu"

SelectDevice(setting, avail) == IF setting = None THEN DefaultDevice(avail) ELSE setting

\* setup_model: a model_path, when given, is what the model is restored from.
setup_model(c) == IF c.model_path # None THEN "model_path" ELSE "pretrained_name"

-----------------------------------------------------------------------------
(* The collaborators of the batch loop, at their interface *)

\* get_batch_starts_ends: consecutive batches of batch_size lines, by
\* 0-based line id; the last batch ends at the last line.
get_batch_starts(n, bs) == [k \in 1..((n + bs - 1) \div bs) |-> (k - 1) * bs]

get_batch_ends(n, bs) == [k \in 1..((n + bs - 1) \div bs) |-> Min(k * bs, n) - 1]

\* get_manifest_lines_batch: the lines start..end of the manifest, in order.
get_manifest_lines_batch(m, start, end) ==
    [k \in 1..(end - start + 1) |-> [line_id |-> start + k - 1, line |-> m[start + k]]]

\* get_batch_variables, the utterance objects: one per line of the batch.
BatchUttObjs(lines, pred) ==
    [k \in DOMAIN lines |->
        [line_id |-> lines[k].line_id,
         T |-> lines[k].line.T,
         U |-> lines[k].line.U,
         has_pred_text |-> pred,
         failed |-> FALSE,
         t_unit |-> NoDuration,
         saved_output_files |-> {}]]

\* get_batch_variables, the duration: determined (here: `measured`, whatever
\* this batch yields) only when none has been established yet.
BatchDuration(duration_in, measured) ==
    IF duration_in = NoDuration THEN measured ELSE duration_in

\* viterbi_decoding: one result per utterance; decoding fails for a target
\* that the frame count cannot hold under the CTC topology.
DecodeFails(T, U) == 2 * U + 1 > T

viterbi_decoding(utts) == [k \in DOMAIN utts |-> [ok |-> ~DecodeFails(utts[k].T, utts[k].U)]]

\* add_t_start_end_to_utt_obj: timestamps from the alignment, in units of
\* the duration; a failed alignment marks the utterance failed.
add_t_start_end_to_utt_obj(utt, alignment, duration) ==
    [utt EXCEPT !.failed = ~alignment.ok, !.t_unit = duration]

\* make_ctm_files: the CTM files of an utterance (none when it failed).
CtmFiles(utt, sep) ==
    IF utt.failed THEN {}
    ELSE {<<k, utt.line_id>> :
            k \in {"ctm_tokens", "ctm_words"}
                  \cup (IF sep = None THEN {} ELSE {"ctm_segments"})}

make_ctm_files(utt, sep) ==
    [utt EXCEPT !.saved_output_files = @ \cup CtmFiles(utt, sep)]

\* make_ass_files: the ASS files of an utterance (none when it failed).
AssFiles(utt) ==
    IF utt.failed THEN {} ELSE {<<k, utt.line_id>> : k \in {"ass_tokens", "ass_words"}}

\* write_manifest_out_line: the line of an utterance.
ManifestOutLine(utt) ==
    [line_id |-> utt.line_id,
     failed |-> utt.failed,
     has_pred_text |-> utt.has_pred_text,
     t_unit |-> utt.t_unit,
     paths |-> utt.saved_output_files]

-----------------------------------------------------------------------------
(* main, lines 207-258: what main itself does around the collaborators *)

\* Line 226, zip(starts, ends), reversed.
ZipStartsEndsReversed(ss, es) ==
    [k \in 1..Min(Len(ss), Len(es)) |->
        <<ss[Min(Len(ss), Len(es)) + 1 - k], es[Min(Len(ss), Len(es)) + 1 - k]>>]

\* Line 226: for start, end in zip(starts, ends).
ZipStartsEnds(ss, es) == [k \in 1..Min(Len(ss), Len(es)) |-> <<ss[k], es[k]>>]

\* Line 235, passing None instead of the run's duration.
DurationArgNone(duration) == NoDuration

\* Line 235: the duration main passes to get_batch_variables is the one the
\* previous call returned (line 229 rebinds output_timestep_duration).
DurationArg(duration) == duration

\* Line 240, with the loop left at the first failed alignment.
ZipUttsUntilFailure(utts, aligns) ==
    IF \E k \in 1..Min(Len(utts), Len(aligns)) : ~aligns[k].ok
    THEN (CHOOSE k \in 1..Min(Len(utts), Len(aligns)) :
             ~aligns[k].ok /\ \A j \in 1..(k - 1) : aligns[j].ok) - 1
    ELSE Min(Len(utts), Len(aligns))

\* Line 240: the number of iterations of zip(utt_obj_batch, alignments_batch).
ZipUtts(utts, aligns) == Min(Len(utts), Len(aligns))

\* Line 240, pairing every utterance with the first alignment of the batch.
PairedAlignmentFirst(aligns, k) == aligns[1]

\* Line 240: zip pairs the k-th utterance with the k-th alignment.
PairedAlignment(aligns, k) == aligns[k]

\* Lines 242-252 for one utterance: the utterance object handed to
\* write_manifest_out_line.  Line 245 rebinds utt_obj to what make_ctm_files
\* returns; line 250 discards what make_ass_files returns.
ProcessedUtt(utt, alignment, duration, c) ==
    LET timed == add_t_start_end_to_utt_obj(utt, alignment, duration)
    IN  IF "ctm" \in c.save_output_file_formats
        THEN make_ctm_files(timed, c.additional_ctm_grouping_separator)
        ELSE timed

\* Lines 244-252 for one utterance: the files created.
CreatedFiles(utt, alignment, duration, c) ==
    LET timed == add_t_start_end_to_utt_obj(utt, alignment, duration)
    IN  (IF "ctm" \in c.save_output_file_formats
         THEN CtmFiles(timed, c.additional_ctm_grouping_separator) ELSE {})
        \cup (IF "ass" \in c.save_output_file_formats THEN AssFiles(timed) ELSE {})

\* Lines 244-252 for one utterance: the collaborators called.
FormatterCalls(c) ==
    {"add_t_start_end_to_utt_obj", "write_manifest_out_line"}
    \cup (IF "ctm" \in c.save_output_file_formats THEN {"make_ctm_files"} ELSE {})
    \cup (IF "ass" \in c.save_output_file_formats THEN {"make_ass_files"} ELSE {})

-----------------------------------------------------------------------------
(* The state machine *)

\* What main has not touched yet.
Fresh ==
    /\ pc = "validate_config"
    /\ error = NoError
    /\ transcribe_device = "unset"
    /\ viterbi_device = "unset"
    /\ model = "unloaded"
    /\ called = {}
    /\ output_dir_created = FALSE
    /\ f_manifest_out = "unopened"
    /\ manifest_out = <<>>
    /\ files = {}
    /\ starts = <<>>
    /\ ends = <<>>
    /\ batch_i = 1
    /\ pred_text_all_lines = NoneList
    /\ output_timestep_duration = NoDuration
    /\ utt_obj_batch = <<>>
    /\ alignments_batch = <<>>
    /\ utt_i = 1

\* The inputs of a run.  The four families each vary what one part of main
\* reads and keep the rest at a value that lets the run get there.
Init ==
    /\ Fresh
    /\ \/ /\ cfg \in ValidityConfigs
          /\ manifest \in {<<GoodLine>>, <<[GoodLine EXCEPT !.fields = {"text"}]>>}
          /\ cuda_available = TRUE
          /\ model_is_ctc = TRUE
       \/ /\ cfg \in ManifestConfigs
          /\ manifest \in KeyManifests
          /\ cuda_available = TRUE
          /\ model_is_ctc = TRUE
       \/ /\ cfg \in DeviceConfigs
          /\ manifest = <<GoodLine>>
          /\ cuda_available \in BOOLEAN
          /\ model_is_ctc \in BOOLEAN
       \/ /\ cfg \in RunConfigs
          /\ manifest \in RunManifests
          /\ cuda_available = TRUE
          /\ model_is_ctc = TRUE

\* Lines 129-149, a check fails: main raises ValueError.
ValidateConfigFail ==
    /\ pc = "validate_config"
    /\ ConfigError(cfg) # NoError
    /\ pc' = "error"
    /\ error' = ConfigError(cfg)
    /\ UNCHANGED <<cfg, manifest, cuda_available, model_is_ctc, transcribe_device,
                   viterbi_device, model, called, output_dir_created, f_manifest_out,
                   manifest_out, files, starts, ends, batch_i, pred_text_all_lines,
                   output_timestep_duration, utt_obj_batch, alignments_batch, utt_i>>

\* Lines 129-149, every check passes.
ValidateConfigOk ==
    /\ pc = "validate_config"
    /\ ConfigError(cfg) = NoError
    /\ pc' = "validate_manifest"
    /\ UNCHANGED <<cfg, manifest, cuda_available, model_is_ctc, error, transcribe_device,
                   viterbi_device, model, called, output_dir_created, f_manifest_out,
                   manifest_out, files, starts, ends, batch_i, pred_text_all_lines,
                   output_timestep_duration, utt_obj_batch, alignments_batch, utt_i>>

\* Lines 151-170, a check fails: main raises RuntimeError.
ValidateManifestFail ==
    /\ pc = "validate_manifest"
    /\ ManifestError(cfg, manifest) # NoError
    /\ pc' = "error"
    /\ error' = ManifestError(cfg, manifest)
    /\ UNCHANGED <<cfg, manifest, cuda_available, model_is_ctc, transcribe_device,
                   viterbi_device, model, called, output_dir_created, f_manifest_out,
                   manifest_out, files, starts, ends, batch_i, pred_text_all_lines,
                   output_timestep_duration, utt_obj_batch, alignments_batch, utt_i>>

\* Lines 151-170, every check passes.
ValidateManifestOk ==
    /\ pc = "validate_manifest"
    /\ ManifestError(cfg, manifest) = NoError
    /\ pc' = "init_devices"
    /\ UNCHANGED <<cfg, manifest, cuda_available, model_is_ctc, error, transcribe_device,
                   viterbi_device, model, called, output_dir_created, f_manifest_out,
                   manifest_out, files, starts, ends, batch_i, pred_text_all_lines,
                   output_timestep_duration, utt_obj_batch, alignments_batch, utt_i>>

\* Lines 172-189.
InitDevices ==
    /\ pc = "init_devices"
    /\ transcribe_device' = SelectDevice(cfg.transcribe_device, cuda_available)
    /\ viterbi_device' = SelectDevice(cfg.viterbi_device, cuda_available)
    /\ pc' = "load_model"
    /\ UNCHANGED <<cfg, manifest, cuda_available, model_is_ctc, error,
                   model, called, output_dir_created, f_manifest_out,
                   manifest_out, files, starts, ends, batch_i, pred_text_all_lines,
                   output_timestep_duration, utt_obj_batch, alignments_batch, utt_i>>

\* Lines 191-205, the model is a CTC model.
LoadModel ==
    /\ pc = "load_model"
    /\ model_is_ctc
    /\ model' = setup_model(cfg)
    /\ called' = called \cup {"setup_model"}
    /\ pc' = "setup"
    /\ UNCHANGED <<cfg, manifest, cuda_available, model_is_ctc, error, transcribe_device,
                   viterbi_device, output_dir_created, f_manifest_out,
                   manifest_out, files, starts, ends, batch_i, pred_text_all_lines,
                   output_timestep_duration, utt_obj_batch, alignments_batch, utt_i>>

\* Lines 191-199, the model is not a CTC model: main raises.
LoadModelNotCTC ==
    /\ pc = "load_model"
    /\ ~model_is_ctc
    /\ model' = setup_model(cfg)
    /\ called' = called \cup {"setup_model"}
    /\ pc' = "error"
    /\ error' = "NotImplementedError"
    /\ UNCHANGED <<cfg, manifest, cuda_available, model_is_ctc, transcribe_device,
                   viterbi_device, output_dir_created, f_manifest_out,
                   manifest_out, files, starts, ends, batch_i, pred_text_all_lines,
                   output_timestep_duration, utt_obj_batch, alignments_batch, utt_i>>

\* Lines 207-223: batch boundaries, the run-level state, the output manifest.
Setup ==
    /\ pc = "setup"
    /\ starts' = get_batch_starts(Len(manifest), cfg.batch_size)
    /\ ends' = get_batch_ends(Len(manifest), cfg.batch_size)
    /\ pred_text_all_lines' = IF cfg.align_using_pred_text THEN EmptyList ELSE NoneList
    /\ output_timestep_duration' = NoDuration
    /\ output_dir_created' = TRUE
    /\ f_manifest_out' = "open"
    /\ called' = called \cup {"get_batch_starts_ends", "makedirs", "open"}
    /\ batch_i' = 1
    /\ pc' = "batch"
    /\ UNCHANGED <<cfg, manifest, cuda_available, model_is_ctc, error, transcribe_device,
                   viterbi_device, model, manifest_out, files,
                   utt_obj_batch, alignments_batch, utt_i>>

\* Lines 226-236: the next batch's lines and its batch variables.
BuildBatch ==
    /\ pc = "batch"
    /\ batch_i <= Len(ZipStartsEnds(starts, ends))
    /\ \E measured \in 1..MaxStride :
        LET se == ZipStartsEnds(starts, ends)[batch_i]
            lines == get_manifest_lines_batch(manifest, se[1], se[2])
        IN  /\ utt_obj_batch' = BatchUttObjs(lines, cfg.align_using_pred_text)
            /\ output_timestep_duration' =
                   BatchDuration(DurationArg(output_timestep_duration), measured)
    /\ alignments_batch' = <<>>
    /\ called' = called \cup {"get_manifest_lines_batch", "get_batch_variables"}
    /\ pc' = "decode"
    /\ UNCHANGED <<cfg, manifest, cuda_available, model_is_ctc, error, transcribe_device,
                   viterbi_device, model, output_dir_created, f_manifest_out,
                   manifest_out, files, starts, ends, batch_i, pred_text_all_lines, utt_i>>

\* Line 238.
Decode ==
    /\ pc = "decode"
    /\ alignments_batch' = viterbi_decoding(utt_obj_batch)
    /\ called' = called \cup {"viterbi_decoding"}
    /\ utt_i' = 1
    /\ pc' = "utt"
    /\ UNCHANGED <<cfg, manifest, cuda_available, model_is_ctc, error, transcribe_device,
                   viterbi_device, model, output_dir_created, f_manifest_out,
                   manifest_out, files, starts, ends, batch_i, pred_text_all_lines,
                   output_timestep_duration, utt_obj_batch>>

\* Lines 240-256, one iteration: timestamps, output files, manifest line.
ProcessUtt ==
    /\ pc = "utt"
    /\ utt_i <= ZipUtts(utt_obj_batch, alignments_batch)
    /\ LET utt == utt_obj_batch[utt_i]
           alignment == PairedAlignment(alignments_batch, utt_i)
       IN  /\ files' = files \cup CreatedFiles(utt, alignment, output_timestep_duration, cfg)
           /\ manifest_out' =
                  Append(manifest_out,
                         ManifestOutLine(ProcessedUtt(utt, alignment,
                                                      output_timestep_duration, cfg)))
    /\ called' = called \cup FormatterCalls(cfg)
    /\ utt_i' = utt_i + 1
    /\ UNCHANGED <<cfg, manifest, cuda_available, model_is_ctc, pc, error, transcribe_device,
                   viterbi_device, model, output_dir_created, f_manifest_out,
                   starts, ends, batch_i, pred_text_all_lines,
                   output_timestep_duration, utt_obj_batch, alignments_batch>>

\* Line 240, the zip is exhausted: back to line 226.
EndBatch ==
    /\ pc = "utt"
    /\ utt_i > ZipUtts(utt_obj_batch, alignments_batch)
    /\ batch_i' = batch_i + 1
    /\ pc' = "batch"
    /\ UNCHANGED <<cfg, manifest, cuda_available, model_is_ctc, error, transcribe_device,
                   viterbi_device, model, called, output_dir_created, f_manifest_out,
                   manifest_out, files, starts, ends, pred_text_all_lines,
                   output_timestep_duration, utt_obj_batch, alignments_batch, utt_i>>

\* Lines 226 and 258-260: no batch is left; the output manifest is closed.
Close ==
    /\ pc = "batch"
    /\ batch_i > Len(ZipStartsEnds(starts, ends))
    /\ f_manifest_out' = "closed"
    /\ pc' = "done"
    /\ UNCHANGED <<cfg, manifest, cuda_available, model_is_ctc, error, transcribe_device,
                   viterbi_device, model, called, output_dir_created,
                   manifest_out, files, starts, ends, batch_i, pred_text_all_lines,
                   output_timestep_duration, utt_obj_batch, alignments_batch, utt_i>>

Next ==
    \/ ValidateConfigFail
    \/ ValidateConfigOk
    \/ ValidateManifestFail
    \/ ValidateManifestOk
    \/ InitDevices
    \/ LoadModel
    \/ LoadModelNotCTC
    \/ Setup
    \/ BuildBatch
    \/ Decode
    \/ ProcessUtt
    \/ EndBatch
    \/ Close

Spec == Init /\ [][Next]_vars

\* main is a sequential program: it keeps executing until it returns or raises.
FairSpec == Spec /\ WF_vars(Next)

-----------------------------------------------------------------------------
(* Vocabulary of the properties *)

LineIds == 0..(Len(manifest) - 1)

\* The manifest line of 0-based id k.
InputLine(k) == manifest[k + 1]

\* Decoding of line k fails: its target is too long for its frame count.
TooLong(k) == 2 * InputLine(k).U + 1 > InputLine(k).T

\* The output manifest lines written for line k.
OutLinesOf(k) == {j \in DOMAIN manifest_out : manifest_out[j].line_id = k}

FilesOf(k) == {f \in files : f[2] = k}

NothingTouched ==
    /\ model = "unloaded"
    /\ called = {}
    /\ output_dir_created = FALSE
    /\ f_manifest_out = "unopened"
    /\ manifest_out = <<>>
    /\ files = {}

\* Every config check of main passes, apart from those on the separator
\* and on the model source.
OtherConfigChecksPass ==
    /\ cfg.manifest_filepath # None
    /\ cfg.output_dir # None
    /\ cfg.batch_size >= 1
    /\ cfg.minimum_timestamp_duration >= 0

RejectedAsConfigError ==
    /\ pc \in {"validate_config", "error"}
    /\ pc = "error" => error = "ValueError"
    /\ NothingTouched

-----------------------------------------------------------------------------
\* In a run that has returned every utterance has its manifest line, and every
\* utterance whose decoding did not fail was post-processed.
C1_Decoded ==
    pc = "done" =>
        \A k \in LineIds :
            /\ OutLinesOf(k) # {}
            /\ ~TooLong(k) =>
                  /\ \A j \in OutLinesOf(k) :
                        ~manifest_out[j].failed /\ manifest_out[j].t_unit # NoDuration
                  /\ "ctm" \in cfg.save_output_file_formats => <<"ctm_words", k>> \in files
                  /\ "ass" \in cfg.save_output_file_formats => <<"ass_words", k>> \in files

(* C1: a decoding failure of one utterance is isolated.  In a run that has   *)
(* returned, every utterance of the manifest has its manifest line, and      *)
(* every utterance whose decoding did not fail was post-processed (it is     *)
(* not marked failed, its timestamps are set, its requested files exist),    *)
(* whatever failed before it in its batch or in earlier batches; and a run   *)
(* that has opened the output manifest goes on to close it.                  *)
C1_FailureIsolated ==
    /\ [](C1_Decoded)
    /\ [](error # NoError => f_manifest_out = "unopened")
    /\ (f_manifest_out = "open") ~> (pc = "done" /\ f_manifest_out = "closed")

\* A finished run of two batches in which the first utterance failed and the
\* rest of its batch and the next batch were decoded.
C1_Witness ==
    /\ pc = "done"
    /\ Len(manifest) = 3
    /\ cfg.batch_size = 2
    /\ TooLong(0) /\ ~TooLong(1) /\ ~TooLong(2)
    /\ cfg.save_output_file_formats = Formats
    /\ <<"ctm_words", 1>> \in files
    /\ <<"ctm_words", 2>> \in files

(* C2: for an utterance whose decoding failed no CTM and no ASS file is      *)
(* produced, its manifest line records the failure and references no file;   *)
(* no manifest line references a file that was not created.                  *)
C2_FailedSkipped ==
    \A j \in DOMAIN manifest_out :
        /\ manifest_out[j].paths \subseteq files
        /\ TooLong(manifest_out[j].line_id) =>
              /\ manifest_out[j].failed
              /\ manifest_out[j].paths = {}
              /\ FilesOf(manifest_out[j].line_id) = {}

\* A failed utterance has its line, after an utterance of the same batch
\* that got its files.
C2_Witness ==
    /\ Len(manifest_out) >= 2
    /\ cfg.batch_size = 2
    /\ cfg.save_output_file_formats = Formats
    /\ ~TooLong(0) /\ TooLong(1)
    /\ manifest_out[1].paths # {}
    /\ manifest_out[2].failed

(* C3: the output manifest holds the lines of utterances 0, 1, 2, ... in     *)
(* input order, one each; nothing is written before the file is opened, and  *)
(* when it is closed every utterance of the input manifest has its line.     *)
C3_ManifestOrder ==
    /\ Len(manifest_out) <= Len(manifest)
    /\ \A j \in DOMAIN manifest_out : manifest_out[j].line_id = j - 1
    /\ f_manifest_out = "unopened" => manifest_out = <<>>
    /\ f_manifest_out = "closed" => Len(manifest_out) = Len(manifest)

\* A closed output manifest of three lines written over two batches.
C3_Witness ==
    /\ f_manifest_out = "closed"
    /\ Len(manifest_out) = 3
    /\ cfg.batch_size = 2

\* Where main is decides whether the duration is set; the timestamps written
\* so far were all computed with the current value.
C4_DurationState ==
    /\ pc \in {"validate_config", "validate_manifest", "init_devices", "load_model",
               "setup", "error"} => output_timestep_duration = NoDuration
    /\ (pc = "batch" /\ batch_i = 1) => output_timestep_duration = NoDuration
    /\ (pc \in {"decode", "utt"} \/ (pc = "batch" /\ batch_i > 1)) =>
           output_timestep_duration # NoDuration
    /\ \A j \in DOMAIN manifest_out : manifest_out[j].t_unit = output_timestep_duration

(* C4: output_timestep_duration is None until the first batch is built, is   *)
(* set from then on and never changes once set; every utterance's timestamps *)
(* were computed with that value.                                            *)
C4_DurationFrozen ==
    /\ [](C4_DurationState)
    /\ [][output_timestep_duration # NoDuration =>
             output_timestep_duration' = output_timestep_duration]_vars

\* An utterance of the second batch is about to be given its timestamps.
C4_Witness ==
    /\ pc = "utt"
    /\ batch_i = 2
    /\ utt_i = 1
    /\ Len(manifest_out) >= 1
    /\ output_timestep_duration = 2

(* C5: whenever a config check or a manifest check of main fails, the model  *)
(* is never loaded, the output directory and the output manifest are never   *)
(* created and no batch builder, decoder or formatter call happens; the run  *)
(* ends with the error.                                                      *)
C5_ErrorsBeforeWork ==
    LET config_fails ==
            \/ cfg.model_path = None /\ cfg.pretrained_name = None
            \/ cfg.model_path # None /\ cfg.pretrained_name # None
            \/ cfg.manifest_filepath = None
            \/ cfg.output_dir = None
            \/ cfg.batch_size < 1
            \/ cfg.additional_ctm_grouping_separator \in {"", " "}
            \/ cfg.minimum_timestamp_duration < 0
    IN  /\ config_fails =>
               /\ NothingTouched
               /\ pc \in {"validate_config", "error"}
               /\ pc = "error" => error = "ValueError"
        /\ error \in {"ValueError", "RuntimeError"} => (pc = "error" /\ NothingTouched)

\* A run ended by a manifest validation error.
C5_Witness ==
    /\ pc = "error"
    /\ error = "RuntimeError"
    /\ Len(manifest) >= 1

(* C6: once the config is accepted, the manifest is accepted exactly when    *)
(* every line has audio_filepath and, without align_using_pred_text, every   *)
(* line has text and, with it, no line has pred_text; otherwise the run ends *)
(* with the manifest validation error.                                       *)
C6_ManifestAccepted ==
    LET accepted ==
            /\ \A i \in DOMAIN manifest : "audio_filepath" \in manifest[i].fields
            /\ ~cfg.align_using_pred_text =>
                   \A i \in DOMAIN manifest : "text" \in manifest[i].fields
            /\ cfg.align_using_pred_text =>
                   \A i \in DOMAIN manifest : "pred_text" \notin manifest[i].fields
    IN  (pc \notin {"validate_config", "validate_manifest"} /\ error # "ValueError") =>
            /\ accepted <=> error # "RuntimeError"
            /\ ~accepted <=> (pc = "error" /\ error = "RuntimeError" /\ NothingTouched)

\* With align_using_pred_text a manifest with a line without text and a line
\* with text is accepted.
C6_Witness ==
    /\ pc = "init_devices"
    /\ cfg.align_using_pred_text
    /\ Len(manifest) >= 2
    /\ "text" \notin manifest[1].fields
    /\ "text" \in manifest[2].fields

(* C7 as claimed: every separator that is empty or whitespace-only (a space, *)
(* several spaces, a tab, a newline) is rejected with a configuration error  *)
(* before any batch is processed.                                            *)
C7_WhitespaceRejected ==
    cfg.additional_ctm_grouping_separator \in {"", " ", "  ", "\t", "\n"} =>
        RejectedAsConfigError

(* C7: the separator is rejected with a configuration error exactly when it  *)
(* is the empty string or a single space; an absent separator and every      *)
(* other string, a whitespace-only one (two spaces, tab, newline) included,  *)
(* passes the check.                                                         *)
C7_EmptyOrSpaceRejected ==
    /\ cfg.additional_ctm_grouping_separator \in {"", " "} => RejectedAsConfigError
    /\ ( /\ cfg.additional_ctm_grouping_separator \notin {"", " "}
         /\ (cfg.model_path = None) # (cfg.pretrained_name = None)
         /\ OtherConfigChecksPass
         /\ pc # "validate_config" )
       => error # "ValueError"

\* A run with a tab as separator has gone through its batch loop.
C7_Witness ==
    /\ cfg.additional_ctm_grouping_separator = "\t"
    /\ pc = "done"
    /\ Len(manifest_out) = 1

(* C8 as claimed: with align_using_pred_text the accumulator holds, after    *)
(* any number of processed batches, one predicted text per utterance         *)
(* processed so far; without it nothing is accumulated.                      *)
C8_OnePredTextPerUtterance ==
    (pc \in {"batch", "done"} /\ f_manifest_out # "unopened") =>
        IF cfg.align_using_pred_text
        THEN /\ Len(pred_text_all_lines) = 1
             /\ Len(pred_text_all_lines[1]) = Len(manifest_out)
        ELSE pred_text_all_lines = NoneList

(* C9 as claimed: a config with both model_path and pretrained_name is       *)
(* accepted and the model is loaded from model_path; only a config with      *)
(* neither is rejected.                                                      *)
C9_ModelPathOverrides ==
    (OtherConfigChecksPass
     /\ cfg.additional_ctm_grouping_separator \notin {"", " "}
     /\ pc # "validate_config") =>
        /\ (cfg.model_path = None /\ cfg.pretrained_name = None) <=> error = "ValueError"
        /\ (cfg.model_path # None /\ model # "unloaded") => model = "model_path"

(* C10 as claimed: a device setting of None selects 'cuda' if CUDA is        *)
(* available and 'cpu' otherwise; any other setting is used as given.        *)
C10_DefaultDevice ==
    transcribe_device # "unset" =>
        /\ transcribe_device =
               (IF cfg.transcribe_device # None THEN cfg.transcribe_device
                ELSE IF cuda_available THEN "cuda" ELSE "cpu")
        /\ viterbi_device =
               (IF cfg.viterbi_device # None THEN cfg.viterbi_device
                ELSE IF cuda_available THEN "cuda" ELSE "cpu")

=============================================================================
